---- MODULE Spec2Model ----
(***************************************************************************)
(* A model of the two bot scripts of the repository:                       *)
(*   - agents/issue_triage_agent: the retrying HTTP helpers of utils.py,   *)
(*     the tool functions of agent.py and fetch_specific_issue_details of  *)
(*     main.py;                                                            *)
(*   - agents/discussion_moderation_agent: list_all_open_discussions and   *)
(*     main of main.py, and the tool functions of tools.py.                *)
(* The remote service and the language-model planner are the environment:  *)
(* every HTTP attempt's outcome and every tool call's arguments are        *)
(* nondeterministic choices over small sets.                               *)
(***************************************************************************)
EXTENDS Integers, Sequences, FiniteSets, TLC

VARIABLES
    setOrder,     \* iteration order of str sets in this interpreter (hash seed)
    teamMembers,  \* the module global TEAM_MEMBERS of this interpreter
    tool,         \* the tool function being executed, or "none"
    toolArgs,     \* its arguments
    toolPc,       \* "idle" | "requesting" | "done"
    toolResult,   \* what the tool function returned, or the exception it let escape
    request,      \* the outbound HTTP call of the running helper
    attempt,      \* HTTP attempts made by the running helper (tenacity attempt_number)
    clientPc,     \* "idle" | "ready" | "sleeping" | "returned" | "raised"
    errs,         \* per attempt of the running helper: "ok" or the exception class
    slept,        \* seconds slept between the attempts of the running helper
    response,     \* parsed JSON the helper returned
    raised,       \* exception the helper raised
    served,       \* the remote's latest 2xx answer: its JSON body, and how many open
                  \* issues needing action it lists after the page it sent
    item,         \* classifier harness: the remote item under classification
    flags,        \* classifier harness: the flags of the latest computation
    prevFlags,    \* classifier harness: the flags of the computation before it
    runs,         \* classifier harness: computations done so far
    dpc,          \* list_all_open_discussions: position
    pages,        \* the remote's listing of open discussions, as it pages it
    fetchLog,     \* the outcome of every run_graphql_query call so far
    afterLog,     \* the "after" cursor of every one of these calls
    all_discussion_numbers,  \* the accumulator of list_all_open_discussions
    has_next_page,
    end_cursor,
    fetched_numbers, \* what list_all_open_discussions gave its caller
    settings,     \* moderation settings.py: EVENT_NAME and DISCUSSION_NUMBER
    mpc,          \* moderation main(): position, or "none" when it is not running
    discussion_numbers_to_process,
    processed,    \* iterations of main's for loop that have ended
    sessions,     \* sessions created by main
    agentCalls,   \* the discussion of every call_agent_async so far
    callSessions, \* the session of every call_agent_async so far
    toolCalls,    \* tool calls made by the agent run in progress
    dtoolResult,  \* what the latest moderation tool call returned
    mutations,    \* addLabelsToLabelable requests sent so far
    firstFailure  \* the first tool call of the run that did not succeed

vars == << setOrder, teamMembers, served, tool, toolArgs, toolPc, toolResult, request, attempt, clientPc,
           errs, slept, response, raised, item, flags, prevFlags, runs,
           dpc, pages, fetchLog, afterLog, all_discussion_numbers, has_next_page,
           end_cursor, fetched_numbers, settings, mpc, discussion_numbers_to_process,
           processed, sessions, agentCalls, callSessions, toolCalls, dtoolResult,
           mutations, firstFailure >>

triageVars == << served, tool, toolArgs, toolPc, toolResult, request, attempt, clientPc,
                 errs, slept, response, raised >>
classifyVars == << item, flags, prevFlags, runs >>
listingVars == << dpc, fetchLog, afterLog, all_discussion_numbers, has_next_page,
                  end_cursor, fetched_numbers >>
mainVars == << settings, mpc, discussion_numbers_to_process, processed, sessions,
               agentCalls, callSessions, toolCalls, dtoolResult, mutations,
               firstFailure >>
moderationVars == << pages, listingVars, mainVars >>

----------------------------------------------------------------------------
(* Bounds of the model *)

MaxItems == 2       \* items in one search response
MaxCount == 2       \* largest issue_count the planner passes
MaxRuns == 3        \* classifier harness: computations per behaviour
MaxPages == 3       \* pages of the remote discussion listing
MaxToolCalls == 2    \* tool calls the planner makes for one discussion
MaxPageLen == 2     \* discussions per page

(* Program constants *)

STOP_AFTER_ATTEMPT == 3   \* stop=stop_after_attempt(3)
WAIT_FIXED == 2           \* wait=wait_fixed(2)
NullCursor == 0           \* end_cursor = None: the listing's start

None == "None"

RECURSIVE Flatten(_)
Flatten(ss) == IF ss = << >> THEN << >> ELSE Head(ss) \o Flatten(Tail(ss))

SeqsUpTo(S, n) == UNION { [1..k -> S] : k \in 0..n }

----------------------------------------------------------------------------
(* Static configuration *)

CATEGORY_TO_OWNER ==
    [ l \in { "core-protocol", "governance", "capability", "documentation",
              "infrastructure", "maintenance", "sdk", "samples-conformance" } |->
        CASE l = "core-protocol" -> "technical-committee"
          [] l = "governance" -> "governance-committee"
          [] l = "capability" -> "maintainers"
          [] l = "documentation" -> "maintainers"
          [] l = "infrastructure" -> "devops-maintainers"
          [] l = "maintenance" -> "devops-maintainers"
          [] l = "sdk" -> "devops-maintainers"
          [] l = "samples-conformance" -> "maintainers" ]

CATEGORIES == DOMAIN CATEGORY_TO_OWNER


TEAM_MEMBERS ==
    [ t \in { "technical-committee", "governance-committee", "maintainers",
              "devops-maintainers" } |->
        CASE t = "technical-committee" ->
               << "igrigorik", "aglazer", "amithanda", "maximenajim", "vvemula",
                  "lemonmade", "mnaga", "sinhanurag", "ihoosain", "raginpirate",
                  "drewolson-google" >>
          [] t = "governance-committee" -> << "igrigorik", "amithanda" >>
          [] t = "maintainers" ->
               << "richmolj", "westeezy", "jingyli", "DanielFalconGuedes", "mmohades",
                  "yanheChen", "alexpark20", "knightlin-shopify" >>
          [] t = "devops-maintainers" ->
               << "wry-ry", "ptiper", "nearlyforget", "aksbro-gpu",
                  "MitkoDeyanovMitev", "damaz91", "carol-w-tech" >> ]

\* The rosters team_members.py may hold: the one of the repository, one whose
\* governance committee has no members yet, and one without that team.
Rosters ==
    { TEAM_MEMBERS,
      [TEAM_MEMBERS EXCEPT !["governance-committee"] = << >>],
      [t \in DOMAIN TEAM_MEMBERS \ { "governance-committee" } |-> TEAM_MEMBERS[t]] }

----------------------------------------------------------------------------
(* The environment's inputs *)

\* Label names a remote issue carries: two category labels and one other label.
Labels == { "sdk", "documentation", "bug" }

\* Authors of remote issues: a person and an automated identity.
Users == { [login |-> "alice", type |-> "User"],
           [login |-> "renovate[bot]", type |-> "Bot"] }

AssigneeLists == { << >>, << "bob" >> }

Range(q) == { q[i] : i \in 1..Len(q) }

\* The label names of remote issues, in the order the remote lists them: none,
\* a label that is no category, one category beside another label, and two
\* categories in either order.
LabelLists == { << >>, << "bug" >>, << "sdk", "bug" >>, << "sdk", "documentation" >>,
                << "documentation", "sdk" >> }

\* A remote issue without its number.
IssueKinds == [labels : LabelLists, assignees : AssigneeLists, user : Users]

Issue(n, k) ==
    [number |-> n, labels |-> k.labels, assignees |-> k.assignees, user |-> k.user]

\* The items of a search response: the issue at position i has number i.
Listing(kinds) == [i \in 1..Len(kinds) |-> Issue(i, kinds[i])]

IssueCounts == 0..MaxCount
IssueNumbers == { 1 }
ToolLabels == { "sdk", "governance", "bug" }
IssueTypes == { "Bug" }
Comments == { "please fill in the template" }

\* The category labels among an issue's label names.
CategoryNames(names) == Range(names) \cap CATEGORIES

\* What list(existing_category_labels)[0] may be in one interpreter, per list of
\* label names: str hashes are salted per process, and when two names meet in
\* the same slot of the set's table the order they were inserted in decides.
\* The pick is a member of the set, the same for the same list as long as the
\* process lives; for two names listed in the two orders CPython gives the
\* same name both times or the first-listed name both times.
SetOrders ==
    { f \in [ { names \in LabelLists : CategoryNames(names) # {} } -> Labels ] :
        /\ \A names \in DOMAIN f : f[names] \in CategoryNames(names)
        /\ \A a, b \in DOMAIN f :
              (Len(a) = 2 /\ b = << a[2], a[1] >> /\ CategoryNames(a) = Range(a)
                 /\ a[1] # a[2]) =>
                  ~(f[a] = a[2] /\ f[b] = b[2]) }

----------------------------------------------------------------------------
(* utils.py: get_request, post_request, patch_request under tenacity's retry *)

RequestException == { "ConnectionError", "HTTPError" }
OtherException == { "TypeError" }

NoRequest == [method |-> "none", target |-> "none", issue_number |-> 0,
              key |-> "none", value |-> "none"]
NoResponse == [type |-> "none", items |-> << >>]
NoServed == [json |-> NoResponse, beyond |-> 0]
NoFuture == [attempt_number |-> 0, exception |-> "none"]
NoException == [cls |-> "none", last_attempt |-> NoFuture]

\* A retry condition that retries whatever was raised.
retry_if_exception(exc) == TRUE

\* retry=retry_if_exception_type(requests.exceptions.RequestException)
retry_if_exception_type(exc) == exc \in RequestException

\* A retry budget that is one attempt too long.
stop_after_attempt_late(attempt_number) == attempt_number >= STOP_AFTER_ATTEMPT + 1

\* stop=stop_after_attempt(3)
stop_after_attempt(attempt_number) == attempt_number >= STOP_AFTER_ATTEMPT

\* wait=wait_fixed(2)
wait_fixed == WAIT_FIXED

\* A RetryError that keeps the first attempt's outcome.
RetryErrorOfFirst(attempt_number, log) ==
    [cls |-> "RetryError",
     last_attempt |-> [attempt_number |-> attempt_number, exception |-> log[1]]]

\* What tenacity raises when it stops: RetryError(last_attempt), the outcome of
\* the attempt that has just failed (reraise is not set).
RetryError(attempt_number, log) ==
    [cls |-> "RetryError",
     last_attempt |-> [attempt_number |-> attempt_number,
                       exception |-> log[attempt_number]]]

\* "per_page": 100, "page": 1: the remote sends the first per_page issues of its
\* listing. The model scales the page down to the bound on a response's items.
per_page == MaxItems

\* How many open issues needing action the remote may list after a full page.
BeyondCounts == { 0, 1 }

\* What the remote may answer a request with: the JSON body it sends, and how
\* many open issues needing action its listing holds after the page sent.
RemoteBodies(req) ==
    CASE req.target = "search/issues" ->
           { [json |-> [type |-> "search", items |-> Listing(page.ks)],
              beyond |-> page.beyond] :
                page \in { p \in [ks : SeqsUpTo(IssueKinds, per_page),
                                   beyond : BeyondCounts] :
                             p.beyond = 0 \/ Len(p.ks) = per_page } }
      [] req.target = "issue" /\ req.method = "get" ->
           { [json |-> [type |-> "issue", items |-> << Issue(req.issue_number, k) >>],
              beyond |-> 0] : k \in IssueKinds }
      [] OTHER -> { [json |-> [type |-> "json", items |-> << >>], beyond |-> 0] }

\* A body that loses its items on the way.
response_json_empty(body) == [body EXCEPT !.items = << >>]

\* "return response.json()"
response_json(body) == body

\* One HTTP attempt that answers 2xx with a JSON body.
AttemptOk ==
    /\ clientPc = "ready"
    /\ \E body \in RemoteBodies(request) :
         /\ attempt' = attempt + 1
         /\ errs' = Append(errs, "ok")
         /\ response' = response_json(body.json)
         /\ served' = body
         /\ clientPc' = "returned"
    /\ UNCHANGED << setOrder, teamMembers, tool, toolArgs, toolPc, toolResult, request, slept,
                    raised >>
    /\ UNCHANGED classifyVars
    /\ UNCHANGED moderationVars

\* One HTTP attempt that raises: requests.get/post/patch or raise_for_status().
AttemptFails ==
    /\ clientPc = "ready"
    /\ \E exc \in RequestException \cup OtherException :
         /\ attempt' = attempt + 1
         /\ errs' = Append(errs, exc)
         /\ IF ~retry_if_exception_type(exc)
            THEN /\ raised' = [cls |-> exc, last_attempt |-> NoFuture]
                 /\ clientPc' = "raised"
            ELSE IF stop_after_attempt(attempt')
            THEN /\ raised' = RetryError(attempt', errs')
                 /\ clientPc' = "raised"
            ELSE /\ raised' = raised
                 /\ clientPc' = "sleeping"
    /\ UNCHANGED << setOrder, teamMembers, tool, toolArgs, toolPc, toolResult, request, slept,
                    response, served >>
    /\ UNCHANGED classifyVars
    /\ UNCHANGED moderationVars

\* The fixed delay between two attempts.
Sleep ==
    /\ clientPc = "sleeping"
    /\ slept' = slept + wait_fixed
    /\ clientPc' = "ready"
    /\ UNCHANGED << setOrder, teamMembers, tool, toolArgs, toolPc, toolResult, request,
                    attempt, errs, response, raised, served >>
    /\ UNCHANGED classifyVars
    /\ UNCHANGED moderationVars

----------------------------------------------------------------------------
(* agent.py: the classification inside list_untriaged_issues *)

category_labels == DOMAIN CATEGORY_TO_OWNER

\* The owner flag computed from the category test.
ClassifyOwnerFromCategory(issue, order) ==
    LET existing_category_labels == Range(issue.labels) \cap category_labels
        has_category == existing_category_labels # {}
        needs_owner == ~has_category
    IN  [needs_category_label |-> ~has_category,
         needs_owner |-> needs_owner,
         existing_category_label |->
             IF (~has_category \/ needs_owner) /\ existing_category_labels # {}
             THEN order[issue.labels] ELSE None]

\* The existing category label never filled in.
ClassifyWithoutExisting(issue, order) ==
    LET existing_category_labels == Range(issue.labels) \cap category_labels
        has_category == existing_category_labels # {}
    IN  [needs_category_label |-> ~has_category,
         needs_owner |-> (issue.assignees = << >>),
         existing_category_label |-> None]

\* The flags of one issue; order is what the interpreter's set iteration gives
\* as list(existing_category_labels)[0] for the issue's list of label names.
\* That expression is evaluated only under "if needs_category_label or
\* needs_owner"; an issue that needs nothing gets no existing_category_label.
Classify(issue, order) ==
    LET issue_labels == Range(issue.labels)
        assignees == issue.assignees
        existing_category_labels == issue_labels \cap category_labels
        has_category == existing_category_labels # {}
        needs_category_label == ~has_category
        needs_owner == (assignees = << >>)
    IN  [needs_category_label |-> needs_category_label,
         needs_owner |-> needs_owner,
         existing_category_label |->
             IF (needs_category_label \/ needs_owner) /\ existing_category_labels # {}
             THEN order[issue.labels] ELSE None]

\* The issue dict after the three keys are stored into it.
Annotate(issue, f) ==
    [number |-> issue.number, labels |-> issue.labels, assignees |-> issue.assignees,
     user |-> issue.user,
     needs_category_label |-> f.needs_category_label,
     needs_owner |-> f.needs_owner,
     existing_category_label |-> f.existing_category_label]

\* "if len(untriaged_issues) >= issue_count: break"
ReachedCount(untriaged_issues, issue_count) == Len(untriaged_issues) >= issue_count

\* The for loop over the fetched items, from item i on; scanned counts the
\* items the loop has looked at.
RECURSIVE ScanIssues(_, _, _, _, _)
ScanIssues(issues, i, untriaged_issues, issue_count, order) ==
    IF i > Len(issues)
    THEN [untriaged_issues |-> untriaged_issues, scanned |-> Len(issues)]
    ELSE LET f == Classify(issues[i], order)
         IN  IF f.needs_category_label \/ f.needs_owner
             THEN LET appended == Append(untriaged_issues, Annotate(issues[i], f))
                  IN  IF ReachedCount(appended, issue_count)
                      THEN [untriaged_issues |-> appended, scanned |-> i]
                      ELSE ScanIssues(issues, i + 1, appended, issue_count, order)
             ELSE ScanIssues(issues, i + 1, untriaged_issues, issue_count, order)

----------------------------------------------------------------------------
(* agent.py and main.py: the tool functions *)

NoArgs == [issue_count |-> 0, issue_number |-> 0, label |-> "none", text |-> "none"]
NoResult == [status |-> "none", message |-> "none", issues |-> << >>, scanned |-> 0,
             value |-> "none"]

error_response(error_message) ==
    [status |-> "error", message |-> error_message, issues |-> << >>, scanned |-> 0,
     value |-> "none"]

\* An exception no except clause of the function caught.
Escapes(exc) ==
    [status |-> "exception", message |-> exc.cls, issues |-> << >>, scanned |-> 0,
     value |-> "none"]

\* "except requests.exceptions.RequestException as e"
ExceptRequestException(exc) == exc.cls \in RequestException

\* The helper is entered: tenacity starts at its first attempt.
StartRequest(req) ==
    /\ request' = req
    /\ attempt' = 0
    /\ errs' = << >>
    /\ slept' = 0
    /\ response' = NoResponse
    /\ served' = NoServed
    /\ raised' = NoException
    /\ clientPc' = "ready"

\* The function returns before any request is made.
ReturnEarly(result) ==
    /\ toolPc' = "done"
    /\ toolResult' = result
    /\ request' = NoRequest
    /\ attempt' = 0
    /\ errs' = << >>
    /\ slept' = 0
    /\ response' = NoResponse
    /\ served' = NoServed
    /\ raised' = NoException
    /\ clientPc' = "idle"

CanCall == toolPc = "idle"

\* The function's frame is gone: its caller has the result.
ToolResultDelivered ==
    /\ toolPc = "done"
    /\ toolPc' = "idle"
    /\ tool' = "none"
    /\ toolArgs' = NoArgs
    /\ toolResult' = NoResult
    /\ request' = NoRequest
    /\ attempt' = 0
    /\ errs' = << >>
    /\ slept' = 0
    /\ response' = NoResponse
    /\ served' = NoServed
    /\ raised' = NoException
    /\ clientPc' = "idle"
    /\ UNCHANGED << setOrder, teamMembers >>
    /\ UNCHANGED classifyVars
    /\ UNCHANGED moderationVars

list_untriaged_issues_call ==
    /\ CanCall
    /\ \E issue_count \in IssueCounts :
         /\ tool' = "list_untriaged_issues"
         /\ toolArgs' = [NoArgs EXCEPT !.issue_count = issue_count]
         /\ toolPc' = "requesting"
         /\ toolResult' = NoResult
         /\ StartRequest([NoRequest EXCEPT !.method = "get", !.target = "search/issues"])
    /\ UNCHANGED << setOrder, teamMembers >>
    /\ UNCHANGED classifyVars
    /\ UNCHANGED moderationVars

list_untriaged_issues_result(issue_count, order) ==
    IF clientPc = "raised"
    THEN IF ExceptRequestException(raised) THEN error_response(raised.cls)
         ELSE Escapes(raised)
    ELSE LET issues == response.items
             scan == ScanIssues(issues, 1, << >>, issue_count, order)
         IN  [status |-> "success", message |-> "none",
              issues |-> scan.untriaged_issues, scanned |-> scan.scanned,
              value |-> "none"]

\* A test that lets every label through.
AnyLabelAllowed(label) == TRUE

\* "label not in CATEGORY_TO_OWNER" decides that the label is refused.
AllowedCategoryLabel(label) == label \in DOMAIN CATEGORY_TO_OWNER

add_label_to_issue_call ==
    /\ CanCall
    /\ \E issue_number \in IssueNumbers, label \in ToolLabels :
         /\ tool' = "add_label_to_issue"
         /\ toolArgs' = [NoArgs EXCEPT !.issue_number = issue_number, !.label = label]
         /\ IF ~AllowedCategoryLabel(label)
            THEN ReturnEarly(error_response("not an allowed category label"))
            ELSE /\ toolPc' = "requesting"
                 /\ toolResult' = NoResult
                 /\ StartRequest([method |-> "post", target |-> "labels",
                                  issue_number |-> issue_number,
                                  key |-> "label", value |-> label])
    /\ UNCHANGED << setOrder, teamMembers >>
    /\ UNCHANGED classifyVars
    /\ UNCHANGED moderationVars

add_label_to_issue_result(label) ==
    IF clientPc = "raised"
    THEN IF ExceptRequestException(raised) THEN error_response(raised.cls)
         ELSE Escapes(raised)
    ELSE [status |-> "success", message |-> "response", issues |-> << >>,
          scanned |-> 0, value |-> label]

\* The warning given for a team without members, worded as for an unknown label.
NoMembersWarningAsUnknown == error_response("not a valid category label")

\* The result for a team that has no members in team_members.py.
NoMembersWarning ==
    [NoResult EXCEPT !.status = "warning", !.message = "no members defined"]

\* The first member of the list is not the one picked.
DefaultOwnerLast(members) == members[Len(members)]

\* "owner = members[0]  # Assign the first user in the list"
DefaultOwner(members) == members[1]

\* TEAM_MEMBERS.get(team) of the label's team, empty when the team is unknown.
Roster(label) ==
    LET team == CATEGORY_TO_OWNER[label]
    IN  IF team \in DOMAIN teamMembers THEN teamMembers[team] ELSE << >>

add_owner_to_issue_call ==
    /\ CanCall
    /\ \E issue_number \in IssueNumbers, label \in ToolLabels :
         /\ tool' = "add_owner_to_issue"
         /\ toolArgs' = [NoArgs EXCEPT !.issue_number = issue_number, !.label = label]
         /\ IF label \notin DOMAIN CATEGORY_TO_OWNER
            THEN ReturnEarly(error_response("not a valid category label"))
            ELSE LET members == Roster(label)
                 IN  IF members = << >> \/ members[1] = ""
                     THEN ReturnEarly(NoMembersWarning)
                     ELSE /\ toolPc' = "requesting"
                          /\ toolResult' = NoResult
                          /\ StartRequest([method |-> "post", target |-> "assignees",
                                           issue_number |-> issue_number,
                                           key |-> "assignees",
                                           value |-> DefaultOwner(members)])
    /\ UNCHANGED << setOrder, teamMembers >>
    /\ UNCHANGED classifyVars
    /\ UNCHANGED moderationVars

add_owner_to_issue_result(owner) ==
    IF clientPc = "raised"
    THEN IF ExceptRequestException(raised) THEN error_response(raised.cls)
         ELSE Escapes(raised)
    ELSE [status |-> "success", message |-> "response", issues |-> << >>,
          scanned |-> 0, value |-> owner]

change_issue_type_call ==
    /\ CanCall
    /\ \E issue_number \in IssueNumbers, issue_type \in IssueTypes :
         /\ tool' = "change_issue_type"
         /\ toolArgs' = [NoArgs EXCEPT !.issue_number = issue_number, !.text = issue_type]
         /\ toolPc' = "requesting"
         /\ toolResult' = NoResult
         /\ StartRequest([method |-> "patch", target |-> "issue",
                          issue_number |-> issue_number,
                          key |-> "type", value |-> issue_type])
    /\ UNCHANGED << setOrder, teamMembers >>
    /\ UNCHANGED classifyVars
    /\ UNCHANGED moderationVars

change_issue_type_result(issue_type) ==
    IF clientPc = "raised"
    THEN IF ExceptRequestException(raised) THEN error_response(raised.cls)
         ELSE Escapes(raised)
    ELSE [status |-> "success", message |-> "response", issues |-> << >>,
          scanned |-> 0, value |-> issue_type]

add_comment_to_issue_call ==
    /\ CanCall
    /\ \E issue_number \in IssueNumbers, comment \in Comments :
         /\ tool' = "add_comment_to_issue"
         /\ toolArgs' = [NoArgs EXCEPT !.issue_number = issue_number, !.text = comment]
         /\ toolPc' = "requesting"
         /\ toolResult' = NoResult
         /\ StartRequest([method |-> "post", target |-> "comments",
                          issue_number |-> issue_number,
                          key |-> "body", value |-> comment])
    /\ UNCHANGED << setOrder, teamMembers >>
    /\ UNCHANGED classifyVars
    /\ UNCHANGED moderationVars

add_comment_to_issue_result ==
    IF clientPc = "raised"
    THEN IF ExceptRequestException(raised) THEN error_response(raised.cls)
         ELSE Escapes(raised)
    ELSE [status |-> "success", message |-> "response", issues |-> << >>,
          scanned |-> 0, value |-> "none"]

\* main.py: the single-issue mode's fetch. Status "candidate" is the returned
\* dict, status "None" the return of None. The dict holds number, title, body and
\* needs_category_label; the other fields of the record below only say which
\* remote issue it was made from.
fetch_specific_issue_details_call ==
    /\ CanCall
    /\ \E issue_number \in IssueNumbers :
         /\ tool' = "fetch_specific_issue_details"
         /\ toolArgs' = [NoArgs EXCEPT !.issue_number = issue_number]
         /\ toolPc' = "requesting"
         /\ toolResult' = NoResult
         /\ StartRequest([NoRequest EXCEPT !.method = "get", !.target = "issue",
                                           !.issue_number = issue_number])
    /\ UNCHANGED << setOrder, teamMembers >>
    /\ UNCHANGED classifyVars
    /\ UNCHANGED moderationVars

fetch_specific_issue_details_result ==
    IF clientPc = "raised"
    THEN IF ExceptRequestException(raised)
         THEN [NoResult EXCEPT !.status = "None", !.message = raised.cls]
         ELSE Escapes(raised)
    ELSE LET issue_data == response.items[1]
             label_names == Range(issue_data.labels)
             existing_category_labels == label_names \cap CATEGORIES
             has_category == existing_category_labels # {}
             needs_category_label == ~has_category
         IN  IF needs_category_label
             THEN [NoResult EXCEPT !.status = "candidate",
                      !.issues = << [number |-> issue_data.number,
                                     labels |-> issue_data.labels,
                                     assignees |-> issue_data.assignees,
                                     user |-> issue_data.user,
                                     needs_category_label |-> needs_category_label,
                                     needs_owner |-> FALSE,
                                     existing_category_label |-> None] >>]
             ELSE [NoResult EXCEPT !.status = "None",
                                   !.message = "already fully triaged"]

\* The helper has returned or raised: the rest of the function body runs.
ToolReturn ==
    /\ toolPc = "requesting"
    /\ clientPc \in { "returned", "raised" }
    /\ toolPc' = "done"
    /\ toolResult' =
         CASE tool = "list_untriaged_issues" ->
                list_untriaged_issues_result(toolArgs.issue_count, setOrder)
           [] tool = "add_label_to_issue" -> add_label_to_issue_result(toolArgs.label)
           [] tool = "add_owner_to_issue" -> add_owner_to_issue_result(request.value)
           [] tool = "change_issue_type" -> change_issue_type_result(toolArgs.text)
           [] tool = "add_comment_to_issue" -> add_comment_to_issue_result
           [] tool = "fetch_specific_issue_details" ->
                fetch_specific_issue_details_result
    /\ UNCHANGED << setOrder, teamMembers, tool, toolArgs, request, attempt, clientPc, errs,
                    slept, response, raised, served >>
    /\ UNCHANGED classifyVars
    /\ UNCHANGED moderationVars

----------------------------------------------------------------------------
(* The classifier alone, on one remote item, in successive interpreters *)

NoFlags == [needs_category_label |-> FALSE, needs_owner |-> FALSE,
            existing_category_label |-> "none"]
NoItem == Issue(0, [labels |-> << >>, assignees |-> << >>,
                    user |-> [login |-> "alice", type |-> "User"]])

\* The flags of the item are computed once more.
ClassifyItem ==
    /\ runs < MaxRuns
    /\ prevFlags' = flags
    /\ flags' = Classify(item, setOrder)
    /\ runs' = runs + 1
    /\ UNCHANGED << setOrder, teamMembers, item >>
    /\ UNCHANGED triageVars
    /\ UNCHANGED moderationVars

\* The script is started again (python -m issue_triage_agent.main): a new
\* interpreter with a new hash seed.
NewProcess ==
    /\ runs < MaxRuns
    /\ setOrder' \in SetOrders
    /\ UNCHANGED teamMembers
    /\ UNCHANGED classifyVars
    /\ UNCHANGED triageVars
    /\ UNCHANGED moderationVars

----------------------------------------------------------------------------
(* discussion_moderation_agent/main.py: list_all_open_discussions *)

\* The numbers of the open discussions of the remote.
DiscussionNumbers == { 7, 3, 5 }

Injective(q) == \A i, j \in 1..Len(q) : q[i] = q[j] => i = j

\* The ways the remote may page its listing in n pages, the discussions of
\* used left out: every open discussion at most once.
RECURSIVE PagesFrom(_, _)
PagesFrom(used, n) ==
    IF n = 0 THEN { << >> }
    ELSE UNION { { << p >> \o rest : rest \in PagesFrom(used \cup Range(p), n - 1) } :
                 p \in { q \in SeqsUpTo(DiscussionNumbers \ used, MaxPageLen) :
                           Injective(q) } }

RemoteListings == UNION { PagesFrom({}, n) : n \in 0..MaxPages }

NoPage == [errors |-> FALSE, data |-> FALSE, nodes |-> << >>, pageInfo |-> FALSE,
           hasNextPage |-> FALSE, endCursor |-> NullCursor]

\* The remote's answer to the discussions query with "after": cursor. Its
\* cursors are the number of pages already served.
RemotePage(ps, cursor) ==
    IF cursor + 1 > Len(ps)
    THEN [NoPage EXCEPT !.data = TRUE, !.pageInfo = TRUE]
    ELSE [errors |-> FALSE, data |-> TRUE, nodes |-> ps[cursor + 1],
          pageInfo |-> TRUE, hasNextPage |-> (cursor + 1 < Len(ps)),
          endCursor |-> cursor + 1]

\* What one call of run_graphql_query(query, variables) may give: the page, a
\* response carrying "errors", a response without "data", or an exception once
\* its retry budget is spent.
GraphqlExceptions == { "RequestException", "RetryError" }

run_graphql_query(ps, after) ==
    { [kind |-> "page", resp |-> RemotePage(ps, after), exc |-> "none"],
      [kind |-> "errors", resp |-> [NoPage EXCEPT !.errors = TRUE], exc |-> "none"],
      [kind |-> "nodata", resp |-> NoPage, exc |-> "none"] }
    \cup { [kind |-> "failed", resp |-> NoPage, exc |-> e] : e \in GraphqlExceptions }

NoReturn == [kind |-> "none", numbers |-> << >>]
ReturnNone == [kind |-> "None", numbers |-> << >>]
ReturnList(numbers) == [kind |-> "list", numbers |-> numbers]
ReturnRaise == [kind |-> "exception", numbers |-> << >>]

\* The numbers gathered so far handed out after a failed fetch.
OnFetchFailureKeepPartial(accumulated) == ReturnList(accumulated)

\* What the function gives its caller when a page fetch went wrong.
OnFetchFailure(accumulated) == ReturnNone

\* A page put in front of the earlier pages.
ExtendInFront(accumulated, nodes) == nodes \o accumulated

\* "all_discussion_numbers.extend([d["number"] for d in nodes])"
Extend(accumulated, nodes) == accumulated \o nodes

\* "end_cursor = page_info.get("endCursor")" with the cursor never renewed.
NextCursorKept(resp) == NullCursor

\* "end_cursor = page_info.get("endCursor")"
NextCursor(resp) == IF resp.pageInfo THEN resp.endCursor ELSE NullCursor

\* The function is entered: the lines before the while loop. It is called on
\* its own, any number of times, or once by main in batch mode.
list_all_open_discussions_call ==
    /\ \/ mpc = "none" /\ dpc \in { "idle", "returned", "raised" }
       \/ mpc = "enumerating" /\ dpc = "idle"
    /\ dpc' = "loop"
    /\ all_discussion_numbers' = << >>
    /\ has_next_page' = TRUE
    /\ end_cursor' = NullCursor
    /\ fetchLog' = << >>
    /\ afterLog' = << >>
    /\ fetched_numbers' = NoReturn
    /\ UNCHANGED mainVars
    /\ UNCHANGED << setOrder, teamMembers, pages >>
    /\ UNCHANGED triageVars
    /\ UNCHANGED classifyVars

\* One iteration of "while has_next_page".
list_all_open_discussions_page ==
    /\ dpc = "loop"
    /\ has_next_page
    /\ \E r \in run_graphql_query(pages, end_cursor) :
         /\ fetchLog' = Append(fetchLog, r.kind)
         /\ afterLog' = Append(afterLog, end_cursor)
         /\ IF r.kind = "failed"
            THEN /\ IF r.exc = "RequestException"
                    THEN /\ dpc' = "returned"
                         /\ fetched_numbers' = OnFetchFailure(all_discussion_numbers)
                    ELSE /\ dpc' = "raised"
                         /\ fetched_numbers' = ReturnRaise
                 /\ UNCHANGED << all_discussion_numbers, has_next_page, end_cursor >>
            ELSE IF r.resp.errors
            THEN /\ dpc' = "returned"
                 /\ fetched_numbers' = OnFetchFailure(all_discussion_numbers)
                 /\ UNCHANGED << all_discussion_numbers, has_next_page, end_cursor >>
            ELSE /\ all_discussion_numbers' = Extend(all_discussion_numbers, r.resp.nodes)
                 /\ has_next_page' = (r.resp.pageInfo /\ r.resp.hasNextPage)
                 /\ end_cursor' = NextCursor(r.resp)
                 /\ UNCHANGED << dpc, fetched_numbers >>
    /\ UNCHANGED mainVars
    /\ UNCHANGED << setOrder, teamMembers, pages >>
    /\ UNCHANGED triageVars
    /\ UNCHANGED classifyVars

\* The loop has ended: "return all_discussion_numbers".
list_all_open_discussions_return ==
    /\ dpc = "loop"
    /\ ~has_next_page
    /\ dpc' = "returned"
    /\ fetched_numbers' = ReturnList(all_discussion_numbers)
    /\ UNCHANGED << setOrder, teamMembers, pages, fetchLog, afterLog,
                    all_discussion_numbers, has_next_page, end_cursor >>
    /\ UNCHANGED mainVars
    /\ UNCHANGED triageVars
    /\ UNCHANGED classifyVars

----------------------------------------------------------------------------
(* tools.py of the discussion moderation agent *)

\* What run_graphql_query may give for a query: a response, with or without
\* an "errors" key and with what its "data" holds ("null": the data, or the
\* repository in it, is null; "absent": no "data" key), or an exception.
GraphqlResponse(errors, data) == [errors |-> errors, data |-> data, exc |-> "none"]
GraphqlRaises(exc) == [errors |-> FALSE, data |-> "none", exc |-> exc]
NoLookup == GraphqlRaises("none")

DiscussionAnswers ==
    { GraphqlResponse(FALSE, "discussion"), GraphqlResponse(FALSE, "no_discussion"),
      GraphqlResponse(TRUE, "null") }
      \cup { GraphqlRaises(e) : e \in GraphqlExceptions }

\* The label query's response lists the label or does not, with or without
\* "errors" beside the data; a response without usable data carries "errors".
LabelAnswers ==
    { GraphqlResponse(e, d) : e \in BOOLEAN, d \in { "label", "no_label" } }
      \cup { GraphqlResponse(TRUE, "null"), GraphqlResponse(TRUE, "absent") }
      \cup { GraphqlRaises(e) : e \in GraphqlExceptions }

\* The mutation is accepted, answered with "errors", or the request raises.
MutationAnswers == { "accepted", "errors" } \cup GraphqlExceptions

NoToolResult == [tool |-> "none", status |-> "none", message |-> "none",
                 lookup |-> NoLookup, mutation |-> "none"]
NoFailure == [at |-> 0, message |-> "none"]

\* error_response(message) of the moderation agent's utils
moderation_error_response(message) ==
    [NoToolResult EXCEPT !.status = "error", !.message = message]

\* The exception leaves the tool function.
ToolRaises(exc) == [NoToolResult EXCEPT !.status = "raised", !.message = exc]

\* An except clause that names requests.exceptions.RequestException only.
ExceptRequestExceptionOnly(exc) == exc = "RequestException"

\* "except Exception as e"
ExceptException(exc) == TRUE

get_discussion_and_comments(discussion_number, answer) ==
    LET fails(exc) == IF ExceptException(exc) THEN moderation_error_response(exc)
                      ELSE ToolRaises(exc)
        result ==
          IF answer.exc # "none" THEN fails(answer.exc)
          ELSE IF answer.errors THEN moderation_error_response("errors")
          ELSE IF answer.data = "null" THEN fails("AttributeError")
          ELSE IF answer.data # "discussion" THEN moderation_error_response("not found")
          ELSE [NoToolResult EXCEPT !.status = "success", !.message = "discussion"]
    IN  [result EXCEPT !.tool = "get_discussion_and_comments", !.lookup = answer]

\* The label query gives the label's id when the data of its response lists
\* the label, whether or not the response carries "errors", which is not
\* looked at; data that is null makes .get raise AttributeError inside the try
\* statement. The mutation's response is not looked at.
add_label_to_discussion(label_answer, mutation_answer) ==
    LET fails(exc) == IF ExceptException(exc) THEN moderation_error_response(exc)
                      ELSE ToolRaises(exc)
        result ==
          IF label_answer.exc # "none"
          THEN fails(label_answer.exc)
          ELSE IF label_answer.data = "null"
          THEN fails("AttributeError")
          ELSE IF label_answer.data # "label"
          THEN moderation_error_response("label not found")
          ELSE IF mutation_answer \in GraphqlExceptions
          THEN [fails(mutation_answer) EXCEPT !.mutation = mutation_answer]
          ELSE [NoToolResult EXCEPT !.status = "success", !.message = "label",
                                    !.mutation = mutation_answer]
    IN  [result EXCEPT !.tool = "add_label_to_discussion", !.lookup = label_answer]

----------------------------------------------------------------------------
(* main.py of the discussion moderation agent: main() *)

NoSettings == [EVENT_NAME |-> "none", DISCUSSION_NUMBER |-> "none"]

\* EVENT_NAME and DISCUSSION_NUMBER as os.getenv gives them.
Settings ==
    { [EVENT_NAME |-> e, DISCUSSION_NUMBER |-> d] :
        e \in { "discussion", "workflow_dispatch", "schedule" },
        d \in { None, "", "0", "7", "abc" } }

\* The listings the runs of main are checked against.
MainListings ==
    { << >>, << << 7 >> >>, << << 7, 3 >>, << 5 >> >>, << << 7 >>, << 3 >>, << >> >> }

\* int(number_str) of the decimal strings above
IntOf == [d \in { "0", "7" } |-> IF d = "0" THEN 0 ELSE 7]

parse_number_string(number_str, default_value) ==
    IF number_str = None THEN default_value
    ELSE IF number_str \in DOMAIN IntOf THEN IntOf[number_str]
    ELSE default_value

\* Python's truth value of an optional str
Truthy(str) == str \notin { None, "" }

SingleMode ==
    settings.EVENT_NAME \in { "discussion", "workflow_dispatch" }
      /\ Truthy(settings.DISCUSSION_NUMBER)

\* The two single-discussion branches of main.
main_single ==
    /\ mpc = "start"
    /\ SingleMode
    /\ LET discussion_number == parse_number_string(settings.DISCUSSION_NUMBER, 0)
       IN  IF discussion_number = 0
           THEN /\ mpc' = "exit"
                /\ UNCHANGED discussion_numbers_to_process
           ELSE /\ mpc' = "loop"
                /\ discussion_numbers_to_process' = << discussion_number >>
    /\ UNCHANGED << settings, processed, sessions, agentCalls, callSessions, toolCalls,
                    dtoolResult, mutations, firstFailure >>
    /\ UNCHANGED << setOrder, teamMembers, pages >>
    /\ UNCHANGED listingVars
    /\ UNCHANGED triageVars
    /\ UNCHANGED classifyVars

\* The batch branch up to "await list_all_open_discussions()".
main_batch ==
    /\ mpc = "start"
    /\ ~SingleMode
    /\ mpc' = "enumerating"
    /\ UNCHANGED << settings, discussion_numbers_to_process, processed, sessions,
                    agentCalls, callSessions, toolCalls, dtoolResult, mutations,
                    firstFailure >>
    /\ UNCHANGED << setOrder, teamMembers, pages >>
    /\ UNCHANGED listingVars
    /\ UNCHANGED triageVars
    /\ UNCHANGED classifyVars

\* list_all_open_discussions has ended: "if not fetched_numbers: return".
main_fetched ==
    /\ mpc = "enumerating"
    /\ dpc \in { "returned", "raised" }
    /\ IF dpc = "raised"
       THEN /\ mpc' = "raised"
            /\ UNCHANGED discussion_numbers_to_process
       ELSE IF fetched_numbers.kind = "None" \/ fetched_numbers.numbers = << >>
       THEN /\ mpc' = "exit"
            /\ UNCHANGED discussion_numbers_to_process
       ELSE /\ mpc' = "loop"
            /\ discussion_numbers_to_process' = fetched_numbers.numbers
    /\ UNCHANGED << settings, processed, sessions, agentCalls, callSessions, toolCalls,
                    dtoolResult, mutations, firstFailure >>
    /\ UNCHANGED << setOrder, teamMembers, pages >>
    /\ UNCHANGED listingVars
    /\ UNCHANGED triageVars
    /\ UNCHANGED classifyVars

\* A loop that takes the head of the list at every iteration.
FirstDiscussion(numbers, done) == numbers[1]

\* "for discussion_number in discussion_numbers_to_process": the element the
\* iteration after done iterations gets.
NextDiscussion(numbers, done) == numbers[done + 1]

\* The head of the for loop up to "await ...create_session(...)": a session
\* is created for the next discussion, or the loop and main end. The session
\* service numbers the sessions it creates.
main_for ==
    /\ mpc = "loop"
    /\ IF processed < Len(discussion_numbers_to_process)
       THEN /\ sessions' = sessions + 1
            /\ mpc' = "session"
       ELSE /\ mpc' = "exit"
            /\ UNCHANGED sessions
    /\ UNCHANGED << settings, discussion_numbers_to_process, processed, agentCalls,
                    callSessions, toolCalls, dtoolResult, mutations, firstFailure >>
    /\ UNCHANGED << setOrder, teamMembers, pages >>
    /\ UNCHANGED listingVars
    /\ UNCHANGED triageVars
    /\ UNCHANGED classifyVars

\* create_session has returned: the prompt is built and call_agent_async is
\* entered with the discussion of this iteration and the id of its session.
main_call_agent ==
    /\ mpc = "session"
    /\ agentCalls' = Append(agentCalls,
                            NextDiscussion(discussion_numbers_to_process, processed))
    /\ callSessions' = Append(callSessions, sessions)
    /\ mpc' = "agent"
    /\ UNCHANGED << settings, discussion_numbers_to_process, processed, sessions,
                    toolCalls, dtoolResult, mutations, firstFailure >>
    /\ UNCHANGED << setOrder, teamMembers, pages >>
    /\ UNCHANGED listingVars
    /\ UNCHANGED triageVars
    /\ UNCHANGED classifyVars

\* The agent run gets a tool's result, or the exception the tool let escape,
\* which ends call_agent_async and main.
ToolCalled(result, sent) ==
    /\ dtoolResult' = result
    /\ toolCalls' = toolCalls + 1
    /\ mutations' = mutations + sent
    /\ firstFailure' = IF firstFailure = NoFailure /\ result.status # "success"
                       THEN [at |-> processed + 1, message |-> result.message]
                       ELSE firstFailure
    /\ mpc' = IF result.status = "raised" THEN "raised" ELSE mpc
    /\ UNCHANGED << settings, discussion_numbers_to_process, processed, sessions,
                    agentCalls, callSessions >>
    /\ UNCHANGED << setOrder, teamMembers, pages >>
    /\ UNCHANGED listingVars
    /\ UNCHANGED triageVars
    /\ UNCHANGED classifyVars

\* The planner calls get_discussion_and_comments for the discussion at hand.
call_get_discussion_and_comments ==
    /\ mpc = "agent"
    /\ toolCalls < MaxToolCalls
    /\ \E answer \in DiscussionAnswers :
         ToolCalled(get_discussion_and_comments(agentCalls[Len(agentCalls)], answer), 0)

\* The answers to the mutation after a label query's answer: the mutation is
\* sent only when the label's id was found ("none": nothing is sent).
MutationsAfter(label_answer) ==
    IF label_answer.exc = "none" /\ label_answer.data = "label"
    THEN MutationAnswers ELSE { "none" }

\* The planner calls add_label_to_discussion.
call_add_label_to_discussion ==
    /\ mpc = "agent"
    /\ toolCalls < MaxToolCalls
    /\ \E label_answer \in LabelAnswers :
         \E mutation_answer \in MutationsAfter(label_answer) :
           LET result == add_label_to_discussion(label_answer, mutation_answer)
           IN  ToolCalled(result, IF result.mutation = "none" THEN 0 ELSE 1)

\* call_agent_async returns the agent's final output; the iteration ends.
call_agent_async_returns ==
    /\ mpc = "agent"
    /\ mpc' = "loop"
    /\ processed' = processed + 1
    /\ toolCalls' = 0
    /\ dtoolResult' = NoToolResult
    /\ UNCHANGED << settings, discussion_numbers_to_process, sessions, agentCalls,
                    callSessions, mutations, firstFailure >>
    /\ UNCHANGED << setOrder, teamMembers, pages >>
    /\ UNCHANGED listingVars
    /\ UNCHANGED triageVars
    /\ UNCHANGED classifyVars

----------------------------------------------------------------------------
(* Specifications *)

TriageIdle ==
    /\ tool = "none"
    /\ toolArgs = NoArgs
    /\ toolPc = "idle"
    /\ toolResult = NoResult
    /\ request = NoRequest
    /\ attempt = 0
    /\ clientPc = "idle"
    /\ errs = << >>
    /\ slept = 0
    /\ response = NoResponse
    /\ raised = NoException
    /\ served = NoServed

ClassifyIdle ==
    /\ item = NoItem
    /\ flags = NoFlags
    /\ prevFlags = NoFlags
    /\ runs = 0

MainIdle ==
    /\ settings = NoSettings
    /\ mpc = "none"
    /\ discussion_numbers_to_process = << >>
    /\ processed = 0
    /\ sessions = 0
    /\ agentCalls = << >>
    /\ callSessions = << >>
    /\ toolCalls = 0
    /\ dtoolResult = NoToolResult
    /\ mutations = 0
    /\ firstFailure = NoFailure

ModerationIdle ==
    /\ dpc = "idle"
    /\ pages = << >>
    /\ fetchLog = << >>
    /\ afterLog = << >>
    /\ MainIdle
    /\ all_discussion_numbers = << >>
    /\ has_next_page = FALSE
    /\ end_cursor = NullCursor
    /\ fetched_numbers = NoReturn

\* The issue triage agent: the planner calls the tool functions in any order.
Init ==
    /\ setOrder \in SetOrders
    /\ teamMembers = TEAM_MEMBERS
    /\ TriageIdle
    /\ ClassifyIdle
    /\ ModerationIdle

Next ==
    \/ list_untriaged_issues_call
    \/ add_label_to_issue_call
    \/ add_owner_to_issue_call
    \/ change_issue_type_call
    \/ add_comment_to_issue_call
    \/ fetch_specific_issue_details_call
    \/ AttemptOk
    \/ AttemptFails
    \/ Sleep
    \/ ToolReturn
    \/ ToolResultDelivered

Spec == Init /\ [][Next]_vars

\* The classifier as a pure function of a remote item.
InitClassify ==
    /\ setOrder \in SetOrders
    /\ teamMembers = TEAM_MEMBERS
    /\ TriageIdle
    /\ \E k \in IssueKinds : item = Issue(1, k)
    /\ flags = NoFlags
    /\ prevFlags = NoFlags
    /\ runs = 0
    /\ ModerationIdle

NextClassify ==
    \/ ClassifyItem
    \/ NewProcess

SpecClassify == InitClassify /\ [][NextClassify]_vars

\* The batch enumeration of the discussion moderation agent.
InitModeration ==
    /\ setOrder \in SetOrders
    /\ teamMembers = TEAM_MEMBERS
    /\ TriageIdle
    /\ ClassifyIdle
    /\ dpc = "idle"
    /\ pages \in RemoteListings
    /\ fetchLog = << >>
    /\ afterLog = << >>
    /\ MainIdle
    /\ all_discussion_numbers = << >>
    /\ has_next_page = FALSE
    /\ end_cursor = NullCursor
    /\ fetched_numbers = NoReturn

NextModeration ==
    \/ list_all_open_discussions_call
    \/ list_all_open_discussions_page
    \/ list_all_open_discussions_return

SpecModeration == InitModeration /\ [][NextModeration]_vars

\* One run of the discussion moderation script.
InitMain ==
    /\ setOrder \in SetOrders
    /\ teamMembers = TEAM_MEMBERS
    /\ TriageIdle
    /\ ClassifyIdle
    /\ dpc = "idle"
    /\ pages \in MainListings
    /\ fetchLog = << >>
    /\ afterLog = << >>
    /\ all_discussion_numbers = << >>
    /\ has_next_page = FALSE
    /\ end_cursor = NullCursor
    /\ fetched_numbers = NoReturn
    /\ settings \in Settings
    /\ mpc = "start"
    /\ discussion_numbers_to_process = << >>
    /\ processed = 0
    /\ sessions = 0
    /\ agentCalls = << >>
    /\ callSessions = << >>
    /\ toolCalls = 0
    /\ dtoolResult = NoToolResult
    /\ mutations = 0
    /\ firstFailure = NoFailure

NextMain ==
    \/ main_single
    \/ main_batch
    \/ list_all_open_discussions_call
    \/ list_all_open_discussions_page
    \/ list_all_open_discussions_return
    \/ main_fetched
    \/ main_for
    \/ main_call_agent
    \/ call_get_discussion_and_comments
    \/ call_add_label_to_discussion
    \/ call_agent_async_returns

SpecMain == InitMain /\ [][NextMain]_vars

\* Owner assignment alone, under each roster the deployment may configure.
InitOwner ==
    /\ setOrder \in SetOrders
    /\ teamMembers \in Rosters
    /\ TriageIdle
    /\ ClassifyIdle
    /\ ModerationIdle

NextOwner ==
    \/ add_owner_to_issue_call
    \/ AttemptOk
    \/ AttemptFails
    \/ Sleep
    \/ ToolReturn
    \/ ToolResultDelivered

SpecOwner == InitOwner /\ [][NextOwner]_vars

----------------------------------------------------------------------------
(* The claims *)

AllTransient == \A i \in 1..Len(errs) : errs[i] \in RequestException

Exhausted == Len(errs) = 3 /\ AllTransient

TriageTools == { "list_untriaged_issues", "add_label_to_issue", "add_owner_to_issue",
                 "change_issue_type", "add_comment_to_issue" }

Listed == toolPc = "done" /\ tool = "list_untriaged_issues" /\ toolResult.status = "success"

Returned(i) == toolResult.issues[i]

\* An automated author: the login ends in "[bot]" or the account type is "Bot".
IsBot(user) == user.login \in { "renovate[bot]" } \/ user.type = "Bot"

\* C1: one call of get_request, post_request or patch_request makes at most 3
\* HTTP attempts, whatever transient failures the remote produces.
C1_AtMostThreeAttempts ==
    /\ attempt <= 3
    /\ Len(errs) = attempt
    /\ request.method \in { "none", "get", "post", "patch" }

C1_Witness ==
    /\ clientPc = "raised"
    /\ request.method = "patch"
    /\ attempt = 3
    /\ AllTransient

\* C2: when all 3 attempts fail with a transient error the call returns no
\* value and raises the retry error carrying the error of the third attempt.
C2_ExhaustedRaisesLastError ==
    (clientPc \in { "raised", "returned" } /\ Exhausted) =>
        /\ clientPc = "raised"
        /\ response = NoResponse
        /\ raised.cls = "RetryError"
        /\ raised.last_attempt.attempt_number = 3
        /\ raised.last_attempt.exception = errs[3]

C2_Witness ==
    /\ clientPc = "raised"
    /\ Exhausted
    /\ errs[1] # errs[3]
    /\ errs[2] # errs[3]
    /\ raised.last_attempt.exception = errs[3]

\* C3: an issue-triage tool function whose request has failed on all 3 attempts
\* returns a result with status "error" and a message; no exception escapes it.
C3_ExhaustionIsReportedAsError ==
    (toolPc = "done" /\ tool \in TriageTools /\ Exhausted) =>
        /\ toolResult.status = "error"
        /\ toolResult.message # "none"

\* C4: for every issue list_untriaged_issues returns, needs_category_label is
\* true exactly when no label of the issue is a key of the category registry, and
\* needs_owner is true exactly when the issue has no assignee.
C4_FlagsMatchItem ==
    Listed =>
        \A i \in 1..Len(toolResult.issues) :
            /\ Returned(i).needs_category_label
                 = (Range(Returned(i).labels) \cap DOMAIN CATEGORY_TO_OWNER = {})
            /\ Returned(i).needs_owner = (Returned(i).assignees = << >>)

C4_Witness ==
    /\ Listed
    /\ Len(toolResult.issues) = 2
    /\ Returned(1).assignees = << >> /\ Returned(1).needs_owner
    /\ ~Returned(1).needs_category_label
    /\ Returned(2).assignees # << >> /\ ~Returned(2).needs_owner
    /\ Returned(2).needs_category_label

\* C5: a returned issue whose labels meet the category registry has
\* needs_category_label false and an existing_category_label that is one of the
\* labels in common; a returned issue whose labels do not has None.
C5_ExistingLabelIsCommon ==
    Listed =>
        \A i \in 1..Len(toolResult.issues) :
            LET common == Range(Returned(i).labels) \cap DOMAIN CATEGORY_TO_OWNER
            IN  IF common # {}
                THEN /\ ~Returned(i).needs_category_label
                     /\ Returned(i).existing_category_label \in common
                ELSE Returned(i).existing_category_label = None

C5_Witness ==
    /\ Listed
    /\ Len(toolResult.issues) = 2
    /\ Returned(1).labels = << "sdk", "documentation" >>
    /\ Returned(1).existing_category_label = "documentation"
    /\ Returned(2).labels = << "bug" >>
    /\ Returned(2).existing_category_label = None

\* C6: computing the flags twice for the same remote item and the same registry
\* gives the same needs_category_label, needs_owner and existing_category_label,
\* also for an item with two known category labels.
C6_SameFlagsEveryTime ==
    runs >= 2 => flags = prevFlags

\* C7: an issue whose author is a bot is never among the candidates of
\* list_untriaged_issues nor returned by fetch_specific_issue_details.
C7_NoBotCandidate ==
    (toolPc = "done" /\ tool \in { "list_untriaged_issues", "fetch_specific_issue_details" }) =>
        \A i \in 1..Len(toolResult.issues) : ~IsBot(Returned(i).user)

\* C8: when every page fetch succeeds, list_all_open_discussions returns the
\* discussion numbers of all pages, concatenated in the remote's order: each
\* item of each page once, nothing missing and nothing re-sorted.
C8_ConcatenationInRemoteOrder ==
    (dpc = "returned" /\ \A i \in 1..Len(fetchLog) : fetchLog[i] = "page") =>
        /\ fetched_numbers.kind = "list"
        /\ fetched_numbers.numbers = Flatten(pages)
        /\ Len(fetchLog) = IF pages = << >> THEN 1 ELSE Len(pages)

C8_Witness ==
    /\ dpc = "returned"
    /\ fetched_numbers.kind = "list"
    /\ Len(pages) = 3
    /\ fetchLog = << "page", "page", "page" >>
    /\ Len(pages[1]) = 2
    /\ fetched_numbers.numbers = << 5, 7, 3 >>

\* C9: if a page fetch of list_all_open_discussions fails, by an exception of
\* the request or by a response carrying "errors", the caller gets no numbers
\* at all: the ones gathered from earlier pages are not returned.
C9_AllOrNothing ==
    (dpc \in { "returned", "raised" }
       /\ \E i \in 1..Len(fetchLog) : fetchLog[i] \in { "failed", "errors" }) =>
        /\ fetched_numbers.kind \in { "None", "exception" }
        /\ fetched_numbers.numbers = << >>

C9_Witness ==
    /\ dpc = "returned"
    /\ fetchLog = << "page", "page", "errors" >>
    /\ Len(all_discussion_numbers) = 2
    /\ fetched_numbers = ReturnNone

\* C10: list_untriaged_issues(issue_count) returns at most issue_count issues
\* for every issue_count >= 0, and looks at no fetched item after the one that
\* completed the count.
C10_AtMostIssueCount ==
    (Listed /\ toolArgs.issue_count >= 0) =>
        /\ Len(toolResult.issues) <= toolArgs.issue_count
        /\ Len(toolResult.issues) >= toolArgs.issue_count =>
             toolResult.scanned = IF toolResult.issues = << >> THEN 0
                                  ELSE Returned(Len(toolResult.issues)).number


\* An issue that list_untriaged_issues is to return: one lacking a category
\* label or an assignee.
NeedsAction(issue) ==
    Range(issue.labels) \cap DOMAIN CATEGORY_TO_OWNER = {} \/ issue.assignees = << >>

NeedingActionOnPage ==
    Cardinality({ i \in 1..Len(response.items) : NeedsAction(response.items[i]) })

\* C11: whenever the remote has at least k >= 1 open issues needing action,
\* list_untriaged_issues(k) returns k issues, also when they lie after the
\* first page of the search listing.
C11_ReturnsCountWhenRemoteHasIt ==
    (Listed /\ toolArgs.issue_count >= 1
       /\ NeedingActionOnPage + served.beyond >= toolArgs.issue_count) =>
        Len(toolResult.issues) = toolArgs.issue_count


OwnerAsked == tool = "add_owner_to_issue"

UnknownCategory == OwnerAsked /\ toolArgs.label \notin DOMAIN CATEGORY_TO_OWNER

EmptyTeam ==
    OwnerAsked /\ toolArgs.label \in DOMAIN CATEGORY_TO_OWNER
               /\ Roster(toolArgs.label) = << >>

RosterFound ==
    OwnerAsked /\ toolArgs.label \in DOMAIN CATEGORY_TO_OWNER
               /\ Roster(toolArgs.label) # << >>

\* C12: for a registry label whose team has a non-empty roster,
\* add_owner_to_issue posts one assignee, the first member of that team's
\* roster, and on success reports that member as assigned_owner.
C12_FirstRosterMemberAssigned ==
    RosterFound =>
        /\ request = [method |-> "post", target |-> "assignees",
                      issue_number |-> toolArgs.issue_number, key |-> "assignees",
                      value |-> Roster(toolArgs.label)[1]]
        /\ (toolPc = "done" /\ clientPc = "returned") =>
               /\ toolResult.status = "success"
               /\ toolResult.value = Roster(toolArgs.label)[1]
        /\ (toolPc = "done" /\ toolResult.status = "success") => clientPc = "returned"

C12_Witness ==
    /\ RosterFound
    /\ toolArgs.label = "governance"
    /\ toolPc = "done"
    /\ toolResult.status = "success"
    /\ toolResult.value = "igrigorik"

\* C13: add_owner_to_issue with a label outside the registry, or with a label
\* whose team has no roster entries, returns without any request to the
\* remote, with a non-success status and a message that tells the two cases
\* apart; nothing is raised.
C13_NoOwnerNoRequest ==
    (UnknownCategory \/ EmptyTeam) =>
        /\ toolPc = "done"
        /\ toolResult.status \in { "error", "warning" }
        /\ request = NoRequest
        /\ attempt = 0
        /\ UnknownCategory => toolResult = error_response("not a valid category label")
        /\ EmptyTeam =>
              /\ toolResult.status = "warning"
              /\ toolResult.message = "no members defined"
              /\ toolResult.message # error_response("not a valid category label").message

C13_Witness ==
    /\ EmptyTeam
    /\ toolArgs.label = "governance"
    /\ toolPc = "done"
    /\ toolResult.status = "warning"


\* C16: a call whose first attempts fail transiently and whose attempt 2 or 3
\* succeeds returns the parsed JSON of that attempt, as a first-attempt success
\* does, and the success is the call's last attempt.
C16_RetriedSuccessReturnsBody ==
    /\ \A i \in 1..Len(errs) :
          errs[i] = "ok" => (i = Len(errs) /\ clientPc = "returned")
    /\ clientPc = "returned" =>
          /\ attempt = Len(errs)
          /\ errs[attempt] = "ok"
          /\ \A i \in 1..(attempt - 1) : errs[i] \in RequestException
          /\ served # NoServed
          /\ response = served.json
          /\ raised = NoException

C16_Witness ==
    /\ clientPc = "returned"
    /\ attempt = 3
    /\ slept = 2 * WAIT_FIXED
    /\ response.items # << >>
    /\ toolPc = "done"

\* C17: an exception outside RequestException ends the call at the attempt
\* that raised it: the exception itself is raised, no attempt and no delay
\* follows, and when it is the first outcome the call made one attempt and
\* never slept.
C17_NonTransientFailsAtOnce ==
    \A i \in 1..Len(errs) :
        errs[i] \in OtherException =>
            /\ i = Len(errs)
            /\ attempt = i
            /\ slept = WAIT_FIXED * (i - 1)
            /\ clientPc = "raised"
            /\ raised = [cls |-> errs[i], last_attempt |-> NoFuture]

C17_Witness ==
    /\ errs = << "TypeError" >>
    /\ attempt = 1
    /\ slept = 0
    /\ clientPc = "raised"
    /\ raised.cls = "TypeError"


\* C19: for a successfully fetched issue, fetch_specific_issue_details returns
\* a candidate exactly when list_untriaged_issues would include the issue:
\* when it lacks a category label or has no assignees.
C19_SingleModeAgreesWithBatch ==
    (tool = "fetch_specific_issue_details" /\ toolPc = "done"
       /\ clientPc = "returned") =>
        ((toolResult.status = "candidate") <=> NeedsAction(response.items[1]))


\* C14: in the moderation batch loop a failed tool call (discussion fetch or
\* label mutation, an exhausted retry budget included) comes back to the agent
\* as an error result; main never ends on an exception once the loop has
\* begun, the discussions are handed to the agent in list order, and when
\* main ends every enumerated discussion has been handed over.
C14_ToolFailureDoesNotAbortBatch ==
    /\ dtoolResult.status \in { "none", "success", "error" }
    /\ mpc = "raised" => (agentCalls = << >> /\ firstFailure = NoFailure)
    /\ Len(agentCalls) <= Len(discussion_numbers_to_process)
    /\ agentCalls = SubSeq(discussion_numbers_to_process, 1, Len(agentCalls))
    /\ (mpc \in { "loop", "exit" } /\ firstFailure # NoFailure) =>
           Len(agentCalls) >= firstFailure.at
    /\ (mpc = "exit" /\ discussion_numbers_to_process # << >>) =>
           /\ agentCalls = discussion_numbers_to_process
           /\ sessions = Len(discussion_numbers_to_process)

C14_Witness ==
    /\ ~SingleMode
    /\ mpc = "exit"
    /\ firstFailure = [at |-> 1, message |-> "RetryError"]
    /\ agentCalls = << 7, 3, 5 >>
    /\ mutations >= 1

EnumerationFailed ==
    /\ ~SingleMode
    /\ dpc \in { "returned", "raised" }
    /\ fetchLog # << >>
    /\ fetchLog[Len(fetchLog)] \in { "failed", "errors" }

\* C15: when list_all_open_discussions fails in batch mode, main ends without
\* a session, without a call of the agent and without a mutating request.
C15_EnumerationFailureEndsRun ==
    EnumerationFailed =>
        /\ mpc \in { "enumerating", "exit", "raised" }
        /\ discussion_numbers_to_process = << >>
        /\ sessions = 0
        /\ agentCalls = << >>
        /\ toolCalls = 0
        /\ mutations = 0

C15_Witness ==
    /\ EnumerationFailed
    /\ mpc = "exit"
    /\ Len(fetchLog) = 2
    /\ all_discussion_numbers = << 7, 3 >>
    /\ fetched_numbers = ReturnNone

Max(a, b) == IF a >= b THEN a ELSE b

\* C18: every invocation of list_all_open_discussions asks for its first page
\* with the null cursor and for each further page with the endCursor of the
\* page before, which reported hasNextPage; after a page that reports no next
\* page or has no pageInfo it asks for nothing more, so that a listing of n
\* pages is read with at most max(1, n) requests.
C18_CursorWalkEnds ==
    /\ Len(afterLog) = Len(fetchLog)
    /\ Len(fetchLog) <= Max(1, Len(pages))
    /\ afterLog # << >> => afterLog[1] = NullCursor
    /\ \A i \in 2..Len(afterLog) :
          /\ fetchLog[i - 1] = "page"
          /\ RemotePage(pages, afterLog[i - 1]).hasNextPage
          /\ afterLog[i] = RemotePage(pages, afterLog[i - 1]).endCursor
    /\ (dpc = "loop" /\ fetchLog # << >>) =>
          (has_next_page <=>
             /\ fetchLog[Len(fetchLog)] = "page"
             /\ RemotePage(pages, afterLog[Len(afterLog)]).hasNextPage)
    /\ (dpc = "returned" /\ fetched_numbers.kind = "list") => ~has_next_page

C18_Witness ==
    /\ dpc = "returned"
    /\ fetched_numbers.kind = "list"
    /\ Len(pages) = 3
    /\ afterLog = << NullCursor, 1, 2 >>
    /\ fetchLog = << "page", "page", "page" >>

\* C20: add_label_to_discussion answers status 'success' only when the remote
\* accepted the addLabelsToLabelable mutation and the response of the label
\* query carried no errors.
C20_SuccessOnlyIfMutationAccepted ==
    (dtoolResult.tool = "add_label_to_discussion" /\ dtoolResult.status = "success") =>
        /\ ~dtoolResult.lookup.errors
        /\ dtoolResult.lookup.data = "label"
        /\ dtoolResult.mutation = "accepted"


\* C21: a request to an issue's labels endpoint is only ever made by
\* add_label_to_issue, for the label it was called with, a key of the category
\* registry; for any other label the function returns status 'error' without
\* a request, and on success it reports the one label it posted.
C21_OnlyCategoryLabelsPosted ==
    /\ request.target = "labels" =>
          /\ tool = "add_label_to_issue"
          /\ request.method = "post"
          /\ request.issue_number = toolArgs.issue_number
          /\ request.value = toolArgs.label
          /\ request.value \in DOMAIN CATEGORY_TO_OWNER
    /\ (tool = "add_label_to_issue" /\ toolArgs.label \notin DOMAIN CATEGORY_TO_OWNER) =>
          /\ toolPc = "done"
          /\ toolResult = error_response("not an allowed category label")
          /\ request = NoRequest
          /\ attempt = 0
    /\ (tool = "add_label_to_issue" /\ toolPc = "done"
          /\ toolResult.status = "success") =>
          /\ clientPc = "returned"
          /\ request.target = "labels"
          /\ toolResult.value = request.value

C21_Witness ==
    /\ tool = "add_label_to_issue"
    /\ toolArgs.label = "sdk"
    /\ toolPc = "done"
    /\ toolResult.status = "success"
    /\ toolResult.value = "sdk"
    /\ request.value = "sdk"
    /\ attempt = 2


\* C22: main hands the discussions to the agent one after the other, in the
\* order of the list and each entry once; a call starts only when the call
\* before it has returned, at most one call is in progress, no discussion is
\* handed over twice, and every call gets a session created for it alone,
\* just before the call.
C22_OneDiscussionAtATime ==
    /\ Len(agentCalls) <= Len(discussion_numbers_to_process)
    /\ \A i \in 1..Len(agentCalls) : agentCalls[i] = discussion_numbers_to_process[i]
    /\ Injective(agentCalls)
    /\ mpc = "agent" => Len(agentCalls) = processed + 1
    /\ mpc # "agent" => Len(agentCalls) = processed
    /\ Len(callSessions) = Len(agentCalls)
    /\ Injective(callSessions)
    /\ sessions = Len(callSessions) + (IF mpc = "session" THEN 1 ELSE 0)
    /\ \A i \in 1..Len(callSessions) : callSessions[i] = i
    /\ mpc = "exit" => processed = Len(discussion_numbers_to_process)

C22_Witness ==
    /\ mpc = "agent"
    /\ discussion_numbers_to_process = << 7, 3, 5 >>
    /\ processed = 2
    /\ agentCalls = << 7, 3, 5 >>
    /\ callSessions = << 1, 2, 3 >>
    /\ toolCalls = 1

====
